---- MODULE Spec2Model ----
(***************************************************************************)
(* Model of the auto-tik quiz-video pipeline: VideoGenerator.generate_video *)
(* (main.py) with the stages it calls: QuestionGenerator.generate_question, *)
(* TTSEngine.generate_question_audio, VideoCreator.create_video,            *)
(* SRTGenerator.generate_srt / transcribe_with_timestamps,                  *)
(* VideoCreator.concatenate_videos, StorageManager.save_video and the two   *)
(* cleanups.                                                                *)
(*                                                                          *)
(* The functions the pipeline uses as a whole, and the two stand-alone      *)
(* scripts, are followed step by step in specifications of their own:       *)
(* SpecSRT (SRTGenerator.generate_srt), SpecTheme (ThemeSelector), SpecBG   *)
(* (BackgroundManager.get_background_video), SpecDD (supprimer_doublons),   *)
(* SpecPV (process_video) and SpecTimer (the frames of                      *)
(* VideoCreator._create_progress_bar_timer).                                *)
(*                                                                          *)
(* Python values are tagged records so that values of different Python      *)
(* types can be compared; a Python str is a sequence of one-character       *)
(* strings.  Durations are whole seconds.                                   *)
(***************************************************************************)
EXTENDS Integers, Sequences, FiniteSets, TLC

\* ------------------------------------------------------------------ bounds
\* config["num_questions"]: questions per video
NumQuestions == 2
\* config["prompt"]["num_choices"]: choices per question
NumChoices == 3
\* config["size_question"]: longest accepted question text
SizeQuestion == 2
\* longest LLM response text (in characters of Chars)
MaxTextLen == 3
\* most entries of the "questions" list of one LLM response
MaxResp == 3
\* the regeneration counter saturates here (history only, not in the code)
MaxRounds == 1
\* longest narration audio, in seconds
MaxAudio == 2

\* ------------------------------------------------------- Python values
PyStr(s) == [t |-> "str", s |-> s, n |-> 0]
PyInt(n) == [t |-> "int", s |-> <<>>, n |-> n]
PyList(n) == [t |-> "list", s |-> <<>>, n |-> n]
PyDict(keys) == [t |-> "dict", keys |-> keys, n |-> Cardinality(keys)]
PyListOf(n) == [t |-> "list", keys |-> {}, n |-> n]

\* str(i) for a one-digit i
str(i) == <<ToString(i)>>

\* the text "aa...a" of n characters
Str(n) == [k \in 1..n |-> "a"]

RECURSIVE lstrip(_)
lstrip(s) == IF s = <<>> THEN s
             ELSE IF Head(s) = " " THEN lstrip(Tail(s)) ELSE s

RECURSIVE rstrip(_)
rstrip(s) == IF s = <<>> THEN s
             ELSE IF s[Len(s)] = " " THEN rstrip(SubSeq(s, 1, Len(s) - 1)) ELSE s

\* str.strip()
strip(s) == rstrip(lstrip(s))

\* int(s) for the text of a one-digit number, surrounding blanks allowed
int(s) == CHOOSE i \in 0..9 : strip(s) = str(i)

\* ------------------------------------------------ validate_question
Fields == {"question", "choices", "answer"}

\* len(v): defined for str, list and dict; TypeError for int
HasLen(v) == v.t \in {"str", "list", "dict"}
len(v) == IF v.t = "str" THEN Len(v.s) ELSE v.n

\* the body of the try block: "True", "False", or "raise" when a statement
\* of the body raises
validate_try_m(q) ==
    IF q.t = "int" THEN "raise"
    ELSE IF ~(Fields \subseteq q.fields) THEN "False"
    ELSE IF q.t # "dict" THEN "raise"
    ELSE IF ~HasLen(q.question) THEN "raise"
    ELSE IF len(q.question) > SizeQuestion THEN "False"
    ELSE IF q.choices.t # "dict" THEN "False"
    ELSE IF \E i \in 1..NumChoices : str(i) \notin q.choices.keys THEN "False"
    ELSE IF ~(\E i \in 1..NumChoices : q.answer = PyStr(str(i))) THEN "False"
    ELSE "True"

validate_try(q) ==
    \* `key in question_data` raises TypeError on an int
    IF q.t = "int" THEN "raise"
    \* all(key in question_data for key in required_fields)
    ELSE IF ~(Fields \subseteq q.fields) THEN "False"
    \* question_data["question"] on a str or a list raises TypeError
    ELSE IF q.t # "dict" THEN "raise"
    ELSE IF ~HasLen(q.question) THEN "raise"
    ELSE IF len(q.question) > SizeQuestion THEN "False"
    ELSE IF q.choices.t # "dict" \/ q.choices.n # NumChoices THEN "False"
    ELSE IF \E i \in 1..NumChoices : str(i) \notin q.choices.keys THEN "False"
    ELSE IF ~(\E i \in 1..NumChoices : q.answer = PyStr(str(i))) THEN "False"
    ELSE "True"

\* except Exception: return False
validate_except_m(r) == IF r = "raise" THEN "True" ELSE r

validate_except(r) == IF r = "raise" THEN "False" ELSE r

validate_question(q) == validate_except(validate_try(q))

\* the entries an LLM response can carry in its "questions" list
QuestionValues ==
    { PyStr(Str(SizeQuestion - 1) \o <<" ">>), PyStr(<<" ">> \o Str(SizeQuestion - 1)),
      PyStr(Str(SizeQuestion + 1)), PyInt(7), PyList(1) }

KeysOf(S) == { str(i) : i \in S }

ChoicesValues ==
    { PyDict(KeysOf(1..NumChoices)), PyDict(KeysOf(1..(NumChoices + 1))),
      PyDict(KeysOf(1..(NumChoices - 1))), PyDict(KeysOf(2..(NumChoices + 1))),
      PyListOf(NumChoices) }

AnswerValues ==
    { PyStr(str(i)) : i \in 0..(NumChoices + 1) }
      \cup { PyStr(<<" ", "1">>), PyInt(1), PyList(0) }

GoodQuestion ==
    [t |-> "dict", fields |-> Fields, question |-> PyStr(Str(SizeQuestion - 1) \o <<" ">>),
     choices |-> PyDict(KeysOf(1..NumChoices)), answer |-> PyStr(str(1))]

\* valid entries, and entries with one flaw each
QuestionInputs ==
    { [GoodQuestion EXCEPT !.question = v] : v \in QuestionValues }
      \cup { [GoodQuestion EXCEPT !.choices = v] : v \in ChoicesValues }
      \cup { [GoodQuestion EXCEPT !.answer = v] : v \in AnswerValues }
      \cup { [GoodQuestion EXCEPT !.question = PyStr(<<" ">> \o Str(SizeQuestion - 1)),
                                  !.answer = PyStr(str(k))] : k \in 1..NumChoices }
      \cup { [GoodQuestion EXCEPT !.question = PyList(1), !.answer = PyInt(1)] }
      \cup { [GoodQuestion EXCEPT !.fields = F] : F \in SUBSET Fields }
      \cup { [GoodQuestion EXCEPT !.t = ty] : ty \in {"str", "list", "int"} }

\* ------------------------------------------------ _clean_json_string
\* characters of an LLM response: braces, a blank, any other character
Chars == {"{", "}", " ", "x"}

RECURSIVE SeqsUpTo(_, _)
SeqsUpTo(S, n) ==
    IF n = 0 THEN { <<>> }
    ELSE LET shorter == SeqsUpTo(S, n - 1)
         IN  shorter \cup { Append(s, c) : s \in shorter, c \in S }

Texts == SeqsUpTo(Chars, MaxTextLen)

\* text.find(c): the first index of c (1-based), 0 when absent
find(s, c) == IF \E i \in 1..Len(s) : s[i] = c
              THEN CHOOSE i \in 1..Len(s) : s[i] = c /\ \A j \in 1..(i - 1) : s[j] # c
              ELSE 0

\* the brace-counting loop from index i with `count` open braces: the index
\* where the count returns to 0, or start when it never does
RECURSIVE scan_braces(_, _, _, _)
scan_braces(s, i, count, start) ==
    IF i > Len(s) THEN start
    ELSE IF s[i] = "{" THEN scan_braces(s, i + 1, count + 1, start)
    ELSE IF s[i] = "}" THEN
         IF count - 1 = 0 THEN i ELSE scan_braces(s, i + 1, count - 1, start)
    ELSE scan_braces(s, i + 1, count, start)

\* re.sub(r'\s+', ' ', s)
RECURSIVE collapse_spaces(_)
collapse_spaces(s) ==
    IF Len(s) < 2 THEN s
    ELSE IF s[1] = " " /\ s[2] = " " THEN collapse_spaces(Tail(s))
    ELSE <<s[1]>> \o collapse_spaces(Tail(s))

\* re.sub(r'{\s+', '{', s) then re.sub(r'\s+}', '}', s)
RECURSIVE strip_inside_braces(_)
strip_inside_braces(s) ==
    IF Len(s) < 2 THEN s
    ELSE IF s[1] = "{" /\ s[2] = " " THEN strip_inside_braces(<<"{">> \o Tail(Tail(s)))
    ELSE IF s[1] = " " /\ s[2] = "}" THEN strip_inside_braces(Tail(s))
    ELSE <<s[1]>> \o strip_inside_braces(Tail(s))

\* the result: err is "" on success, else the ValueError raised
clean_json_string(text) ==
    LET t == strip(text)
        start_idx == find(t, "{")
        end_idx == scan_braces(t, start_idx, 0, start_idx)
    IN  IF start_idx = 0 THEN [err |-> "NoJSON", json_str |-> <<>>]
        ELSE IF end_idx = start_idx THEN [err |-> "BadFormat", json_str |-> <<>>]
        ELSE [err |-> "",
              json_str |-> strip_inside_braces(collapse_spaces(SubSeq(t, start_idx, end_idx)))]

\* ------------------------------------------------ the LLM's response
\* What json.loads makes of the extracted text is the LLM's choice too:
\* rejected, an object without a "questions" list, or a list of n entries.
Payload(kind, n) == [kind |-> kind, n |-> n]

Payloads ==
    { Payload("invalid", 0), Payload("no_questions", 0), Payload("not_list", 0) }
      \cup { Payload("list", n) : n \in 0..MaxResp }

\* "{}" is the empty object; any other text can stand for any payload
PayloadsFor(text) ==
    IF clean_json_string(text).err = "" /\ clean_json_string(text).json_str = <<"{", "}">>
    THEN { Payload("no_questions", 0) }
    ELSE Payloads

NoPayload == Payload("none", 0)
NoQuestion == [GoodQuestion EXCEPT !.t = "none"]
NotChecked == [q |-> NoQuestion, result |-> "none"]

\* the errors of a malformed response
ParseErrors == {"NoJSON", "BadFormat", "JSONDecodeError"}

\* ------------------------------------------------ exception handlers
\* What the innermost try/except around an operation does with its exception.
handler_m(op) ==
    CASE op \in {"validate_question", "timer_font"} -> "swallow"
      [] op \in {"tick_sound", "subtitles_overlay", "background",
                 "tts_cleanup", "video_cleanup", "write_videofile"} -> "log_swallow"
      [] op \in {"choices_lookup", "synthesize_speech", "text_box", "generate_srt",
                 "whisperx", "no_clips", "background_lookup"} -> "log_reraise"
      [] op = "save" -> "wrap_reraise"
      [] OTHER -> "propagate"

handler(op) ==
    CASE op \in {"validate_question", "timer_font"} -> "swallow"
      [] op \in {"tick_sound", "subtitles_overlay", "background",
                 "tts_cleanup", "video_cleanup"} -> "log_swallow"
      [] op \in {"choices_lookup", "synthesize_speech", "text_box", "generate_srt",
                 "whisperx", "no_clips", "background_lookup", "write_videofile"} -> "log_reraise"
      [] op = "save" -> "wrap_reraise"
      [] OTHER -> "propagate"

Fatal(op) == handler(op) \notin {"swallow", "log_swallow"}

\* the sets of operations that raise during one call of a stage: none, or one
Failures(S) == { {} } \cup { {op} : op \in S }

\* The operations of a stage run in the order of `ops`; F are those that raise
\* when run.  The first fatal one ends the stage; the ones after it never run.
FirstFatal(ops, F) ==
    IF \E k \in 1..Len(ops) : ops[k] \in F /\ Fatal(ops[k])
    THEN CHOOSE k \in 1..Len(ops) :
           /\ ops[k] \in F /\ Fatal(ops[k])
           /\ \A j \in 1..(k - 1) : ~(ops[j] \in F /\ Fatal(ops[j]))
    ELSE 0

RaisedIn(ops, F) ==
    LET k == FirstFatal(ops, F)
        last == IF k = 0 THEN Len(ops) ELSE k
    IN  { ops[j] : j \in { j \in 1..last : ops[j] \in F } }

LoggedIn(ops, F) == { op \in RaisedIn(ops, F) : handler(op) \in {"log_swallow", "log_reraise"} }

\* what generate_question does with an error of the current round
generate_question_on_error_m(err) ==
    IF err \in ParseErrors THEN "regenerate" ELSE "propagate"

generate_question_on_error(err) == "propagate"

\* validated_questions[:self.num_questions]
truncate_m(v) == v

truncate(v) == SubSeq(v, 1, IF Len(v) < NumQuestions THEN Len(v) ELSE NumQuestions)

\* ------------------------------------------------------------- state
VARIABLES
    pc,              \* position in generate_video
    cfg,             \* config/settings.json: subtitles.enabled, subtitles.use_whisperx
    text,            \* generate_question: response_text, then json_str
    payload,         \* generate_question: what json.loads yields; n entries left to validate
    validated,       \* generate_question: validated_questions
    rounds,          \* history: regenerations of this call (saturates at MaxRounds)
    checked,         \* history: the last validate_question call and its result
    error,           \* the exception on its way out of generate_video ("" for none)
    raised,          \* history: the operations that raised
    logged,          \* history: the operations whose exception was logged, and by whom
    calls,           \* history: the stage calls and returns, in order
    questions,       \* generate_video: questions
    i,               \* generate_video: index of the question in the loop
    audio_info,      \* generate_video: audio_info of question i
    all_audio_info,  \* generate_video: all_audio_info
    current_time,    \* generate_video: current_time
    video_clips,     \* generate_video: video_clips
    srt_file,        \* generate_video: srt_file
    final_video,     \* the file concatenate_videos wrote
    saved_path,      \* what generate_video returns
    cleaned          \* the cleanups that ran

\* SRTGenerator.generate_srt (srt_generator.py), followed step by step
VARIABLES
    word_by_word,    \* config["subtitles"]["word_by_word"]
    audio_infos,     \* generate_srt: the argument, which the loop changes in place
    srt_pc,          \* position in generate_srt
    srt_i,           \* generate_srt: index of the segment the loop is at
    all_words,       \* generate_srt: all_words
    srt_out          \* the file subtitles.srt, as its blocks

\* ThemeSelector (theme_selector.py) and its history file
VARIABLES
    themes,          \* config["themes"]
    history_file,    \* assets/temp/theme_history.json (<<>> also when absent)
    ts_pc,           \* "none" before a ThemeSelector is built, then "ready"
    last_theme,      \* ThemeSelector.last_theme
    history,         \* ThemeSelector.history
    selections       \* history: the calls of get_next_theme, in order

\* BackgroundManager (background_manager.py) and its directory of videos
VARIABLES
    videos_dir,      \* the .mp4 files in assets/backgrounds/videos
    bg_pc,           \* position in get_background_video
    bg_theme,        \* get_background_video: theme
    bg_video,        \* get_background_video: video['id'] of the search result
    bg_result,       \* what get_background_video returned
    bg_before,       \* history: videos_dir when the call started
    bg_ops           \* history: what the call did (search, download, blur)

\* supprimer_doublons (remove_duplicates.py)
VARIABLES
    fichier_entree,      \* the JSON document read: has_questions, and data['questions']
    fichier_sortie,      \* which file is written ("entree" when the argument is None) and what
    dd_pc,               \* position in supprimer_doublons
    dd_k,                \* index of the entry the loop is at
    questions_vues,      \* supprimer_doublons: questions_vues
    questions_uniques,   \* supprimer_doublons: questions_uniques
    dd_report            \* what supprimer_doublons printed: before, after, removed

\* process_video (tiktok_video_processor.py)
VARIABLES
    clip_size,       \* clip.size of the input video: width, height
    blur_background, \* the argument blur_background (option -b)
    pv_pc,           \* position in process_video
    final_clip       \* the composition that process_video writes

\* VideoCreator._create_progress_bar_timer (video_creator.py), frame by frame
VARIABLES
    frames_per_second,   \* config["video"]["fps"]
    tm_pc,               \* position in _create_progress_bar_timer
    frame,               \* the loop variable of `for frame in range(total_frames)`
    frames               \* what is drawn on each frame made so far

qgvars == <<text, payload, validated, rounds, checked>>
loopvars == <<questions, i, audio_info, all_audio_info, current_time, video_clips>>
endvars == <<srt_file, final_video, saved_path, cleaned>>
pipevars == <<pc, cfg, error, raised, logged, calls, qgvars, loopvars, endvars>>
srtvars == <<word_by_word, audio_infos, srt_pc, srt_i, all_words, srt_out>>
themevars == <<themes, history_file, ts_pc, last_theme, history, selections>>
bgvars == <<videos_dir, bg_pc, bg_theme, bg_video, bg_result, bg_before, bg_ops>>
ddvars == <<fichier_entree, fichier_sortie, dd_pc, dd_k, questions_vues, questions_uniques, dd_report>>
pvvars == <<clip_size, blur_background, pv_pc, final_clip>>
tmvars == <<frames_per_second, tm_pc, frame, frames>>
libvars == <<srtvars, themevars, bgvars, ddvars, pvvars, tmvars>>
notsrt == <<pipevars, themevars, bgvars, ddvars, pvvars, tmvars>>
nottheme == <<pipevars, srtvars, bgvars, ddvars, pvvars, tmvars>>
notbg == <<pipevars, srtvars, themevars, ddvars, pvvars, tmvars>>
notdd == <<pipevars, srtvars, themevars, bgvars, pvvars, tmvars>>
notpv == <<pipevars, srtvars, themevars, bgvars, ddvars, tmvars>>
nottm == <<pipevars, srtvars, themevars, bgvars, ddvars, pvvars>>
vars == <<pipevars, libvars>>

\* generate_srt not called
SrtIdle ==
    /\ word_by_word = TRUE
    /\ audio_infos = <<>>
    /\ srt_pc = "idle"
    /\ srt_i = 0
    /\ all_words = <<>>
    /\ srt_out = <<>>

\* Optional[str] without a value
NoTheme == "None"

\* no ThemeSelector built; the list of themes is not read
ThemeIdle ==
    /\ themes = <<>>
    /\ history_file = <<>>
    /\ ts_pc = "none"
    /\ last_theme = NoTheme
    /\ history = <<>>
    /\ selections = <<>>

\* a path that names no file; also the None that get_background_video returns
NoFile == [theme_snake |-> <<>>, id |-> 0, kind |-> "none"]

\* get_background_video not called
BgIdle ==
    /\ videos_dir = {}
    /\ bg_pc = "idle"
    /\ bg_theme = <<>>
    /\ bg_video = 0
    /\ bg_result = NoFile
    /\ bg_before = {}
    /\ bg_ops = {}

NoReport == [avant |-> -1, apres |-> -1, supprimes |-> -1]

NotWritten == [file |-> "", written |-> FALSE, questions |-> <<>>]

\* supprimer_doublons not called
DdIdle ==
    /\ fichier_entree = [has_questions |-> FALSE, questions |-> <<>>]
    /\ fichier_sortie = NotWritten
    /\ dd_pc = "idle"
    /\ dd_k = 0
    /\ questions_vues = {}
    /\ questions_uniques = <<>>
    /\ dd_report = NoReport

NoClip == [background |-> "", new_width |-> 0, new_height |-> 0, pos_x |-> 0, pos_y |-> 0]

\* process_video not called
PvIdle ==
    /\ clip_size = [width |-> 0, height |-> 0]
    /\ blur_background = FALSE
    /\ pv_pc = "idle"
    /\ final_clip = NoClip

\* _create_progress_bar_timer not called
TimerIdle ==
    /\ frames_per_second = 0
    /\ tm_pc = "idle"
    /\ frame = 0
    /\ frames = <<>>

\* the modules generate_video does not step through are at rest
LibIdle ==
    /\ SrtIdle
    /\ ThemeIdle
    /\ BgIdle
    /\ DdIdle
    /\ PvIdle
    /\ TimerIdle

SrtIdleElse ==
    /\ ThemeIdle
    /\ BgIdle
    /\ DdIdle
    /\ PvIdle
    /\ TimerIdle

ThemeIdleElse ==
    /\ SrtIdle
    /\ BgIdle
    /\ DdIdle
    /\ PvIdle
    /\ TimerIdle

BgIdleElse ==
    /\ SrtIdle
    /\ ThemeIdle
    /\ DdIdle
    /\ PvIdle
    /\ TimerIdle

DdIdleElse ==
    /\ SrtIdle
    /\ ThemeIdle
    /\ BgIdle
    /\ PvIdle
    /\ TimerIdle

PvIdleElse ==
    /\ SrtIdle
    /\ ThemeIdle
    /\ BgIdle
    /\ DdIdle
    /\ TimerIdle

TimerIdleElse ==
    /\ SrtIdle
    /\ ThemeIdle
    /\ BgIdle
    /\ DdIdle
    /\ PvIdle

NoSrt == [exists |-> FALSE, by |-> "", segments |-> 0]
NoVideo == [clips |-> <<>>, srt |-> NoSrt, overlay |-> FALSE, background |-> FALSE]

\* the state of generate_video when it is entered
PipelineInit ==
    /\ pc = "generate_question"
    /\ cfg \in [subtitles : BOOLEAN, whisperx : BOOLEAN]
    /\ text = <<>>
    /\ payload = NoPayload
    /\ validated = <<>>
    /\ rounds = 0
    /\ checked = NotChecked
    /\ error = ""
    /\ raised = {}
    /\ logged = {}
    /\ calls = <<>>
    /\ questions = <<>>
    /\ i = 0
    /\ audio_info = <<>>
    /\ all_audio_info = <<>>
    /\ current_time = 0
    /\ video_clips = <<>>
    /\ srt_file = NoSrt
    /\ final_video = NoVideo
    /\ saved_path = ""
    /\ cleaned = {}

Init == PipelineInit /\ LibIdle

\* an exception leaves `stage` for generate_video's handler, which logs it and
\* re-raises it (main.py 138-140)
RaiseOut(stage, ops, F, err, pre) ==
    /\ pc' = "raised"
    /\ error' = err
    /\ raised' = raised \cup RaisedIn(ops, F)
    /\ logged' = logged \cup LoggedIn(ops, F) \cup {"generate_video"}
    /\ calls' = calls \o pre \o << <<"raise", stage, i>> >>

\* ------------------------------------------------ generate_question
Bump(r) == IF r < MaxRounds THEN r + 1 ELSE r

\* `return self.generate_question(theme)`: a new round of the same call.  The
\* code counts no rounds and sets no maximum; `rounds` is history and
\* saturates at MaxRounds to keep the state space finite.  (Only the
\* interpreter's recursion limit, which the program does not set, would end
\* an endless series of rounds, with a RecursionError.)
Regenerate ==
    /\ pc' = "qg_request"
    /\ rounds' = Bump(rounds)
    /\ text' = <<>>
    /\ payload' = NoPayload
    /\ validated' = <<>>
    /\ checked' = NotChecked
    /\ UNCHANGED <<error, raised, logged, calls>>

\* an operation of the current round raised `err`
QGFail(op, err) ==
    IF generate_question_on_error(err) = "propagate"
    THEN RaiseOut("generate_question", <<op>>, {op}, err, <<>>) /\ UNCHANGED qgvars
    ELSE Regenerate

\* main.py 73: questions = self.question_generator.generate_question(theme)
CallGenerateQuestion ==
    /\ pc = "generate_question"
    /\ pc' = "qg_request"
    /\ calls' = Append(calls, <<"call", "generate_question", 0>>)
    /\ UNCHANGED <<libvars, cfg, error, raised, logged, qgvars, loopvars, endvars>>

\* generate_smart_quiz: the LLM answers with a text, or the request raises
SmartQuiz ==
    /\ pc = "qg_request"
    /\ \/ /\ QGFail("llm_request", "APIError")
       \/ /\ \E t \in Texts : \E p \in PayloadsFor(t) :
                /\ text' = t
                /\ payload' = p
          /\ pc' = "qg_clean"
          /\ UNCHANGED <<validated, rounds, checked, error, raised, logged, calls>>
    /\ UNCHANGED <<libvars, cfg, loopvars, endvars>>

\* json_str = self._clean_json_string(response_text)
CleanJson ==
    /\ pc = "qg_clean"
    /\ LET r == clean_json_string(text)
       IN  IF r.err # ""
           THEN QGFail("clean_json", r.err)
           ELSE /\ text' = r.json_str
                /\ pc' = "qg_loads"
                /\ UNCHANGED <<payload, validated, rounds, checked, error, raised,
                               logged, calls>>
    /\ UNCHANGED <<libvars, cfg, loopvars, endvars>>

\* question_data = json.loads(json_str), then the check of "questions"
LoadJson ==
    /\ pc = "qg_loads"
    /\ IF payload.kind = "invalid"
       THEN QGFail("json_loads", "JSONDecodeError")
       ELSE IF payload.kind # "list"
       THEN QGFail("questions_check", "ValueError")
       ELSE /\ pc' = "qg_validate"
            /\ validated' = <<>>
            /\ UNCHANGED <<text, payload, rounds, checked, error, raised, logged, calls>>
    /\ UNCHANGED <<libvars, cfg, loopvars, endvars>>

\* the dict appended for a validated entry (question_generator.py 156-160)
Validated(q) ==
    [question |-> strip(q.question.s), choices |-> q.choices.keys, answer |-> strip(q.answer.s)]

\* one iteration of `for question in question_data["questions"]`
ValidateNext ==
    /\ pc = "qg_validate"
    /\ payload.n > 0
    /\ \E q \in QuestionInputs :
         LET res == validate_question(q)
             caught == IF validate_try(q) = "raise" THEN {"validate_question"} ELSE {}
         IN  /\ checked' = [q |-> q, result |-> res]
             /\ IF res = "True" /\ (q.question.t # "str" \/ q.answer.t # "str")
                THEN \* .strip() of a value that is no str: AttributeError
                     /\ pc' = "raised"
                     /\ error' = "AttributeError"
                     /\ raised' = raised \cup caught \cup {"strip"}
                     /\ logged' = logged \cup {"generate_video"}
                     /\ calls' = Append(calls, <<"raise", "generate_question", 0>>)
                     /\ UNCHANGED <<payload, validated>>
                ELSE /\ pc' = "qg_validate"
                     /\ payload' = [payload EXCEPT !.n = @ - 1]
                     /\ validated' = IF res = "True" THEN Append(validated, Validated(q))
                                     ELSE validated
                     /\ raised' = raised \cup caught
                     /\ UNCHANGED <<error, logged, calls>>
    /\ UNCHANGED <<libvars, cfg, text, rounds, loopvars, endvars>>

\* after the loop: question_generator.py 162-173
FinishRound ==
    /\ pc = "qg_validate"
    /\ payload.n = 0
    /\ IF validated = <<>>
       THEN QGFail("no_valid", "ValueError") /\ UNCHANGED loopvars
       ELSE IF Len(truncate(validated)) < NumQuestions
       THEN Regenerate /\ UNCHANGED loopvars
       ELSE /\ questions' = truncate(validated)
            /\ pc' = "tts"
            /\ i' = 1
            /\ calls' = Append(calls, <<"return", "generate_question", 0>>)
            /\ text' = <<>>
            /\ payload' = NoPayload
            /\ validated' = <<>>
            /\ checked' = NotChecked
            /\ UNCHANGED <<rounds, error, raised, logged, audio_info, all_audio_info,
                           current_time, video_clips>>
    /\ UNCHANGED <<libvars, cfg, endvars>>

\* ------------------------------------------------ generate_question_audio
\* config["video"]["fps"]
Fps == 2
\* timer_duration = 3.0 (main.py 96, video_creator.py 246)
TimerDuration == 3

Durations == 1..MaxAudio

AudioInfo(txt, d, isq) ==
    [text |-> txt, duration |-> d, is_question |-> isq, is_answer |-> ~isq,
     start_time |-> 0, end_time |-> 0]

\* tts_engine.py 72-103: the question, then the answer
output_info(dq, da) == << AudioInfo("question", dq, TRUE), AudioInfo("answer", da, FALSE) >>

\* main.py 89-97: start and end of each audio on the time line of the video;
\* the result is <<audio_info, current_time>>
RECURSIVE adjust_timings(_, _, _)
adjust_timings(infos, j, now) ==
    IF j > Len(infos) THEN <<infos, now>>
    ELSE LET end == now + infos[j].duration
             timed == [infos EXCEPT ![j].start_time = now, ![j].end_time = end]
             after == IF infos[j].is_question /\ j + 1 <= Len(infos) /\ infos[j + 1].is_answer
                      THEN end + TimerDuration ELSE end
         IN  adjust_timings(timed, j + 1, after)

GenerateQuestionAudio ==
    /\ pc = "tts"
    /\ LET q == questions[i]
           ops == <<"choices_lookup", "synthesize_speech">>
           pre == << <<"call", "generate_question_audio", i>> >>
       IN  \E F \in Failures({"synthesize_speech"}) : \E dq \in Durations, da \in Durations :
             LET FF == F \cup (IF q.answer \in q.choices THEN {} ELSE {"choices_lookup"})
                 r == adjust_timings(output_info(dq, da), 1, current_time)
             IN  IF FirstFatal(ops, FF) # 0
                 THEN /\ RaiseOut("generate_question_audio", ops, FF,
                                  IF "choices_lookup" \in FF THEN "KeyError" ELSE "TTSError", pre)
                      /\ UNCHANGED <<audio_info, all_audio_info, current_time>>
                 ELSE /\ pc' = "create"
                      /\ audio_info' = r[1]
                      /\ current_time' = r[2]
                      /\ all_audio_info' = all_audio_info \o r[1]
                      /\ calls' = calls \o pre \o << <<"return", "generate_question_audio", i>> >>
                      /\ UNCHANGED <<error, raised, logged>>
    /\ UNCHANGED <<libvars, cfg, qgvars, questions, i, video_clips, endvars>>

\* ------------------------------------------------ create_video
\* _create_text_box: the box of choice k, in the correct or the normal style
text_box(k, is_correct) == [choice |-> k, style |-> IF is_correct THEN "correct" ELSE "normal"]

Part(kind, d, audio, boxes) == [kind |-> kind, duration |-> d, audio |-> audio, boxes |-> boxes]

\* a duration of None
None == -1

\* _create_progress_bar_timer: the choices as given, under the countdown;
\* a blank clip when no frame was drawn
create_progress_bar_timer(timer_duration, choices_boxes, tick) ==
    LET total_frames == timer_duration * Fps
    IN  IF total_frames > 0
        THEN Part("timer", timer_duration, IF tick THEN "tick" ELSE "none", choices_boxes)
        ELSE Part("timer", timer_duration, "none", <<>>)

\* the choice boxes of the answer part (video_creator.py 288-300)
choices_boxes_part2_m(q, choices_boxes) ==
    [k \in 1..Cardinality(q.choices) |->
        IF k - 1 = int(q.answer) THEN text_box(k, TRUE) ELSE choices_boxes[k]]

choices_boxes_part2(q, choices_boxes) ==
    [k \in 1..Cardinality(q.choices) |->
        IF k = int(q.answer) THEN text_box(k, TRUE) ELSE choices_boxes[k]]

\* the parts that go into the clip (video_creator.py 316-327)
final_clips_m(part1, timer_clip, part2) ==
    SelectSeq(<<part1, part2>>, LAMBDA c : c.duration # None)

final_clips(part1, timer_clip, part2) ==
    SelectSeq(<<part1, timer_clip, part2>>, LAMBDA c : c.duration # None)

create_video(q, infos, tick) ==
    LET choices_boxes == [k \in 1..NumChoices |-> text_box(k, FALSE)]
        part1 == Part("question", infos[1].duration, infos[1].text, choices_boxes)
        timer_clip == create_progress_bar_timer(TimerDuration, choices_boxes, tick)
        part2 == Part("answer", infos[2].duration, infos[2].text,
                      choices_boxes_part2(q, choices_boxes))
    IN  final_clips(part1, timer_clip, part2)

RECURSIVE clip_duration(_)
clip_duration(parts) ==
    IF parts = <<>> THEN 0 ELSE Head(parts).duration + clip_duration(Tail(parts))

\* main.py 81: `for i, question in enumerate(questions, 1)` has a question after k
loop_more_m(k) == FALSE

loop_more(k) == k < Len(questions)

\* main.py 107: after the loop, to the subtitles or straight to the concatenation
after_loop_m == "srt"

after_loop == IF cfg.subtitles THEN "srt" ELSE "concat"

CreateVideo ==
    /\ pc = "create"
    /\ LET ops == <<"text_box", "timer_font", "tick_sound">>
           pre == << <<"call", "create_video", i>> >>
       IN  \E F \in Failures({"text_box", "timer_font", "tick_sound"}) :
             IF FirstFatal(ops, F) # 0
             THEN /\ RaiseOut("create_video", ops, F, "VideoError", pre)
                  /\ UNCHANGED <<i, video_clips>>
             ELSE /\ video_clips' = Append(video_clips,
                                           create_video(questions[i], audio_info,
                                                        "tick_sound" \notin F))
                  /\ raised' = raised \cup RaisedIn(ops, F)
                  /\ logged' = logged \cup LoggedIn(ops, F)
                  /\ calls' = calls \o pre \o << <<"return", "create_video", i>> >>
                  /\ IF loop_more(i)
                     THEN i' = i + 1 /\ pc' = "tts"
                     ELSE i' = i /\ pc' = after_loop
                  /\ UNCHANGED error
    /\ UNCHANGED <<libvars, cfg, qgvars, questions, audio_info, all_audio_info, current_time, endvars>>

\* ------------------------------------------------ subtitles
\* main.py 111-117: WhisperX when configured, else the uniform allocation
srt_generator == IF cfg.whisperx THEN "whisperx" ELSE "generate_srt"

GenerateSrt ==
    /\ pc = "srt"
    /\ LET ops == <<srt_generator>>
           pre == << <<"call", "generate_srt", 0>> >>
       IN  \E F \in Failures({srt_generator}) :
             IF FirstFatal(ops, F) # 0
             THEN /\ RaiseOut("generate_srt", ops, F, "SrtError", pre)
                  /\ UNCHANGED srt_file
             ELSE /\ srt_file' = [exists |-> TRUE, by |-> srt_generator,
                                  segments |-> Len(all_audio_info)]
                  /\ pc' = "concat"
                  /\ calls' = calls \o pre \o << <<"return", "generate_srt", 0>> >>
                  /\ UNCHANGED <<error, raised, logged>>
    /\ UNCHANGED <<libvars, cfg, qgvars, loopvars, final_video, saved_path, cleaned>>

\* ------------------------------------------------ concatenate_videos
\* the srt_file argument of the call (main.py 120-126)
srt_argument == IF cfg.subtitles THEN srt_file ELSE NoSrt

\* video_creator.py 523: the overlay is attempted
overlay_attempted(srt) == cfg.subtitles /\ srt # NoSrt /\ srt.exists

ConcatenateVideos ==
    /\ pc = "concat"
    /\ LET srt == srt_argument
           ops == <<"no_clips", "subtitles_overlay", "background_lookup", "background",
                    "write_videofile">>
           may == {"background_lookup", "background", "write_videofile"}
                    \cup (IF overlay_attempted(srt) THEN {"subtitles_overlay"} ELSE {})
           pre == << <<"call", "concatenate_videos", 0>> >>
       IN  \E G \in Failures(may) :
             LET F == G \cup (IF video_clips = <<>> THEN {"no_clips"} ELSE {})
             IN  IF FirstFatal(ops, F) # 0
                 THEN /\ RaiseOut("concatenate_videos", ops, F, "ConcatError", pre)
                      /\ UNCHANGED final_video
                 ELSE /\ final_video' =
                            [clips |-> video_clips, srt |-> srt,
                             overlay |-> overlay_attempted(srt) /\ "subtitles_overlay" \notin F,
                             background |-> "background" \notin F]
                      /\ raised' = raised \cup RaisedIn(ops, F)
                      /\ logged' = logged \cup LoggedIn(ops, F)
                      /\ pc' = "save"
                      /\ calls' = calls \o pre \o << <<"return", "concatenate_videos", 0>> >>
                      /\ UNCHANGED error
    /\ UNCHANGED <<libvars, cfg, qgvars, loopvars, srt_file, saved_path, cleaned>>

\* ------------------------------------------------ save_video and cleanup
SaveVideo ==
    /\ pc = "save"
    /\ LET ops == <<"save">>
           pre == << <<"call", "save_video", 0>> >>
       IN  \E F \in Failures({"save"}) :
             IF FirstFatal(ops, F) # 0
             THEN /\ RaiseOut("save_video", ops, F, "Exception", pre)
                  /\ UNCHANGED saved_path
             ELSE /\ saved_path' = "output/final.mp4"
                  /\ raised' = raised \cup RaisedIn(ops, F)
                  /\ logged' = logged \cup LoggedIn(ops, F)
                  /\ pc' = "cleanup"
                  /\ calls' = calls \o pre \o << <<"return", "save_video", 0>> >>
                  /\ UNCHANGED error
    /\ UNCHANGED <<libvars, cfg, qgvars, loopvars, srt_file, final_video, cleaned>>

\* main.py 133-136: both cleanups, then `return saved_path`
Cleanup ==
    /\ pc = "cleanup"
    /\ LET ops == <<"tts_cleanup", "video_cleanup">>
           pre == << <<"call", "tts_cleanup", 0>>, <<"call", "video_cleanup", 0>> >>
       IN  \E F \in Failures({"tts_cleanup", "video_cleanup"}) :
             IF FirstFatal(ops, F) # 0
             THEN /\ RaiseOut("cleanup", ops, F, "CleanupError", pre)
                  /\ UNCHANGED cleaned
             ELSE /\ cleaned' = {"tts", "video"}
                  /\ raised' = raised \cup RaisedIn(ops, F)
                  /\ logged' = logged \cup LoggedIn(ops, F)
                  /\ pc' = "done"
                  /\ calls' = calls \o pre \o << <<"return", "generate_video", 0>> >>
                  /\ UNCHANGED error
    /\ UNCHANGED <<libvars, cfg, qgvars, loopvars, srt_file, final_video, saved_path>>

\* ------------------------------------------------ the program
Next ==
    \/ CallGenerateQuestion
    \/ SmartQuiz
    \/ CleanJson
    \/ LoadJson
    \/ ValidateNext
    \/ FinishRound
    \/ GenerateQuestionAudio
    \/ CreateVideo
    \/ GenerateSrt
    \/ ConcatenateVideos
    \/ SaveVideo
    \/ Cleanup

Spec == Init /\ [][Next]_vars

\* generate_question alone, called as generate_video calls it; the subtitle
\* settings, which it does not read, are fixed
InitQG == Init /\ cfg = [subtitles |-> FALSE, whisperx |-> FALSE]

NextQG ==
    \/ CallGenerateQuestion
    \/ SmartQuiz
    \/ CleanJson
    \/ LoadJson
    \/ ValidateNext
    \/ FinishRound

SpecQG == InitQG /\ [][NextQG]_vars

\* the call is one sequential computation: a step that can be taken is taken
FairSpecQG == SpecQG /\ WF_vars(NextQG)

\* ------------------------------------------------ reading the history
Idx(ev) == IF \E k \in DOMAIN calls : calls[k] = ev
           THEN CHOOSE k \in DOMAIN calls : calls[k] = ev
           ELSE 0

Happened(ev) == Idx(ev) > 0

\* b did not happen without a before it
Before(a, b) == Happened(b) => (Happened(a) /\ Idx(a) < Idx(b))

Count(ev) == Cardinality({ k \in DOMAIN calls : calls[k] = ev })

Call(stage, k) == <<"call", stage, k>>
Return(stage, k) == <<"return", stage, k>>

QGpcs == {"generate_question", "qg_request", "qg_clean", "qg_loads", "qg_validate"}

\* ------------------------------------------------ C1
\* C1: the stages of generate_video happen in order: generate_question returns
\* before any generate_question_audio call; for each question k,
\* generate_question_audio(k) returns before create_video(k) is called and
\* create_video(k) returns before generate_question_audio(k+1) is called;
\* concatenate_videos is called at most once, exactly once in a run that gets
\* to save_video, and only after create_video returned for every question;
\* save_video is called only after concatenate_videos returned; both cleanups
\* run only after save_video returned.
C1_StageOrder ==
    /\ \A k \in 1..Len(questions) :
         /\ Before(Return("generate_question", 0), Call("generate_question_audio", k))
         /\ Before(Return("generate_question_audio", k), Call("create_video", k))
         /\ Before(Return("create_video", k), Call("generate_question_audio", k + 1))
         /\ Before(Return("create_video", k), Call("concatenate_videos", 0))
         /\ Count(Call("generate_question_audio", k)) <= 1
         /\ Count(Call("create_video", k)) <= 1
    /\ Happened(Call("generate_question_audio", 1)) => Len(questions) >= 1
    /\ Happened(Call("concatenate_videos", 0)) => Len(questions) >= 1
    /\ Count(Call("concatenate_videos", 0)) <= 1
    /\ pc \in {"save", "cleanup", "done"} => Count(Call("concatenate_videos", 0)) = 1
    /\ Before(Return("concatenate_videos", 0), Call("save_video", 0))
    /\ Before(Return("save_video", 0), Call("tts_cleanup", 0))
    /\ Before(Return("save_video", 0), Call("video_cleanup", 0))

\* a complete run over at least two questions
C1_Witness ==
    /\ pc = "done"
    /\ Len(questions) >= 2
    /\ Happened(Call("video_cleanup", 0))

\* ------------------------------------------------ C2
\* the operations whose exception an inner handler keeps from the stage's caller
SwallowedOps ==
    {"validate_question", "timer_font", "tick_sound", "subtitles_overlay", "background",
     "tts_cleanup", "video_cleanup"}

\* the operations under a stage's own log-and-raise handler
StageLoggedOps ==
    {"choices_lookup", "synthesize_speech", "text_box", "generate_srt", "whisperx",
     "no_clips", "background_lookup", "write_videofile"}

MalformedStep ==
    \/ pc = "qg_clean" /\ clean_json_string(text).err # ""
    \/ pc = "qg_loads" /\ payload.kind = "invalid"

C4_GenerateQuestionStops == <>(pc \notin QGpcs)

\* ------------------------------------------------ C5
\* C5: once generate_question has returned, the returned list has exactly
\* num_questions elements.
C5_ExactlyNumQuestions ==
    Happened(Return("generate_question", 0)) => Len(questions) = NumQuestions

\* returned after a round with too few valid questions
C5_Witness ==
    /\ Happened(Return("generate_question", 0))
    /\ rounds >= 1
    /\ Len(questions) = NumQuestions

\* ------------------------------------------------ C6
\* C6: every returned question has exactly the choices "1".."num_choices" and
\* an answer that is one of them.
C6_ChoicesAndAnswer ==
    \A k \in 1..Len(questions) :
        /\ questions[k].choices = { str(c) : c \in 1..NumChoices }
        /\ questions[k].answer \in questions[k].choices

\* a returned list whose first answer is the last choice
C6_Witness ==
    /\ Happened(Return("generate_question", 0))
    /\ Len(questions) >= 1
    /\ questions[1].answer = str(NumChoices)

\* ------------------------------------------------ C7
\* the condition of the claim, on the entry itself
WellFormed(q) ==
    /\ q.t = "dict"
    /\ {"question", "choices", "answer"} \subseteq q.fields
    /\ q.question.t # "int"
    /\ (IF q.question.t = "str" THEN Len(q.question.s) ELSE q.question.n) <= SizeQuestion
    /\ q.choices.t = "dict"
    /\ Cardinality(q.choices.keys) = NumChoices
    /\ \A c \in 1..NumChoices : str(c) \in q.choices.keys
    /\ q.answer.t = "str"
    /\ \E c \in 1..NumChoices : q.answer.s = str(c)

\* C7: validate_question returns True exactly for a well-formed entry, False
\* for every other one, and never raises.
C7_ValidateQuestion ==
    checked.result # "none" =>
        /\ checked.result \in {"True", "False"}
        /\ checked.result = "True" <=> WellFormed(checked.q)

\* an entry whose check raised inside the try block came out False
C7_Witness ==
    /\ checked.result = "False"
    /\ checked.q.t = "dict"
    /\ checked.q.question.t = "int"
    /\ "validate_question" \in raised

\* ------------------------------------------------ C8
\* the audio infos create_video(k) was given
QuestionAudio(k) == all_audio_info[2 * k - 1]
AnswerAudio(k) == all_audio_info[2 * k]

\* C8: every clip create_video returned is the question part (as long as the
\* question audio, which it carries), then the 3 s timer part, then the answer
\* part (as long as the answer audio, which it carries), and lasts
\* d_question + 3 + d_answer.
C8_ClipParts ==
    \A k \in 1..Len(video_clips) :
        LET clip == video_clips[k]
        IN  /\ Len(clip) = 3
            /\ clip[1].kind = "question"
            /\ clip[1].duration = QuestionAudio(k).duration
            /\ clip[1].audio = QuestionAudio(k).text
            /\ QuestionAudio(k).is_question
            /\ clip[2].kind = "timer"
            /\ clip[2].duration = 3
            /\ clip[3].kind = "answer"
            /\ clip[3].duration = AnswerAudio(k).duration
            /\ clip[3].audio = AnswerAudio(k).text
            /\ AnswerAudio(k).is_answer
            /\ clip_duration(clip) = QuestionAudio(k).duration + 3 + AnswerAudio(k).duration

\* a clip whose question and answer audio differ in length
C8_Witness ==
    /\ Len(video_clips) >= 1
    /\ QuestionAudio(1).duration # AnswerAudio(1).duration
    /\ Happened(Return("create_video", 1))

\* ------------------------------------------------ C9
CorrectBoxes(part) == { b \in DOMAIN part.boxes : part.boxes[b].style = "correct" }

\* C9: in every clip create_video returned, the question part and the timer
\* part show every choice in the normal style, and the answer part shows
\* exactly one choice in the correct style: the one numbered int(answer).
C9_AnswerRevealedLast ==
    \A k \in 1..Len(video_clips) :
        LET clip == video_clips[k]
        IN  /\ \A p \in DOMAIN clip :
                 clip[p].kind \in {"question", "timer"} =>
                     \A b \in DOMAIN clip[p].boxes : clip[p].boxes[b].style = "normal"
            /\ \A p \in DOMAIN clip :
                 clip[p].kind = "answer" =>
                     /\ DOMAIN clip[p].boxes = 1..NumChoices
                     /\ \A b \in DOMAIN clip[p].boxes : clip[p].boxes[b].choice = b
                     /\ CorrectBoxes(clip[p]) = { int(questions[k].answer) }
            /\ \E p \in DOMAIN clip : clip[p].kind = "answer"

\* a clip for a question whose answer is the last choice
C9_Witness ==
    /\ Len(video_clips) >= 2
    /\ questions[2].answer = str(NumChoices)
    /\ questions[1].answer = str(1)

\* ------------------------------------------------ C10
Concatenated == pc \in {"save", "cleanup", "done"}

SubtitleSteps ==
    IF cfg.subtitles
    THEN /\ Count(Call("generate_srt", 0)) = 1
         /\ Before(Return("create_video", Len(questions)), Call("generate_srt", 0))
         /\ Before(Return("generate_srt", 0), Call("concatenate_videos", 0))
         /\ srt_file.exists
         /\ srt_file.segments = 2 * NumQuestions
         /\ final_video.srt = srt_file
    ELSE /\ Count(Call("generate_srt", 0)) = 0
         /\ srt_file = NoSrt
         /\ final_video.srt = NoSrt
         /\ ~final_video.overlay

\* C10 as stated: without subtitles no SRT file is generated, none is passed
\* and the video has no overlay; with subtitles one SRT file is generated
\* from all audio infos after the last question and before the concatenation,
\* it is passed to concatenate_videos and overlaid on the video.
C10_SubtitlesAlwaysOverlaid ==
    Concatenated => (SubtitleSteps /\ (cfg.subtitles => final_video.overlay))

\* C10 amended: as stated, except that the overlay is on the video unless
\* building it raised; that exception is logged and swallowed, and the video
\* is written without subtitles.
C10_SubtitlesOptional ==
    Concatenated =>
        /\ SubtitleSteps
        /\ cfg.subtitles => (final_video.overlay <=> "subtitles_overlay" \notin raised)
        /\ "subtitles_overlay" \in raised => "subtitles_overlay" \in logged

\* a run with subtitles enabled whose video carries the overlay
C10_Witness ==
    /\ pc = "done"
    /\ cfg.subtitles
    /\ final_video.overlay
    /\ final_video.srt.segments = 2 * NumQuestions

\* ================================================== SRTGenerator.generate_srt
\* ------------------------------------------------------------------ bounds
\* most segments in audio_infos
MaxSegments == 2
\* longest segment text, in characters
MaxSrtLen == 2
\* latest start_time of an input segment, in seconds
MaxStart == 4
\* longest input segment, in seconds
MaxDur == 2

\* Times are Python floats.  They are modelled as exact fractions num/den in
\* lowest terms (den > 0), so that the arithmetic of the code is the arithmetic
\* of the model up to the rounding of binary floating point, which is left out.
RECURSIVE GCD(_, _)
GCD(a, b) == IF b = 0 THEN a ELSE GCD(b, a % b)

Abs(n) == IF n < 0 THEN -n ELSE n

Rat(n, d) == LET g == GCD(Abs(n), d) IN [num |-> n \div g, den |-> d \div g]

Seconds(n) == Rat(n, 1)

Plus(a, b) == Rat(a.num * b.den + b.num * a.den, a.den * b.den)

Minus(a, b) == Rat(a.num * b.den - b.num * a.den, a.den * b.den)

DivBy(a, n) == Rat(a.num, a.den * n)

Less(a, b) == a.num * b.den < b.num * a.den

\* int(x) of a float x >= 0
Floor(a) == a.num \div a.den

\* the 3.0 of `timer_duration = 3.0`
timer_duration == Seconds(3)

\* characters of a segment text: a letter (\w), a blank (\s), and a full stop,
\* which is one of [.,!?;] and also a \S that is not a \w
SrtChars == {"a", " ", "."}

WordChars == {"a"}

Punctuation == {"."}

Blank == {" "}

\* end of the longest run of \w that starts at i
RECURSIVE run_end(_, _)
run_end(t, p) ==
    IF p < Len(t) /\ t[p + 1] \in WordChars THEN run_end(t, p + 1) ELSE p

\* re.findall(r'\w+(?:[.,!?;])?|\S', text) from position p on
RECURSIVE findall(_, _)
findall(t, p) ==
    IF p > Len(t) THEN <<>>
    ELSE IF t[p] \in WordChars
         THEN LET e == run_end(t, p)
                  f == IF e < Len(t) /\ t[e + 1] \in Punctuation THEN e + 1 ELSE e
              IN  <<SubSeq(t, p, f)>> \o findall(t, f + 1)
         ELSE IF t[p] \in Blank
              THEN findall(t, p + 1)
              ELSE <<SubSeq(t, p, p)>> \o findall(t, p + 1)

\* [word for word in words if word.strip()]
split_text_into_words(t) == SelectSeq(findall(t, 1), LAMBDA w : strip(w) # <<>>)

\* HH:MM:SS,mmm, as the four numbers it prints
format_time(seconds) ==
    LET whole == Floor(seconds)
        hours == whole \div 3600
        minutes == (whole % 3600) \div 60
        secs == Minus(seconds, Seconds(60 * (whole \div 60)))
    IN  [h |-> hours, m |-> minutes, s |-> Floor(secs),
         ms |-> Floor(Rat(1000 * (secs.num - Floor(secs) * secs.den), secs.den))]

\* ------------------------------------------------ the inputs of generate_srt
SrtTexts == SeqsUpTo(SrtChars, MaxSrtLen)

StartTimes == {0, MaxStart}

\* one entry of audio_infos; 'path' and 'duration' are not read by generate_srt
Segments ==
    { [text |-> t, start_time |-> Seconds(s), end_time |-> Seconds(s + d),
       is_question |-> q, is_answer |-> a] :
        t \in SrtTexts, s \in StartTimes, d \in 1..MaxDur, q \in BOOLEAN, a \in BOOLEAN }

\* ------------------------------------------------ generate_srt, step by step
\* the loop `for word in words` (96-106); `segment` is history: the index of
\* the audio segment the word comes from
RECURSIVE assign_timings(_, _, _, _, _, _)
assign_timings(words, j, current, word_duration, info, k) ==
    IF j > Len(words) THEN <<>>
    ELSE << [text |-> words[j],
             start_time |-> current,
             end_time |-> Plus(current, word_duration),
             is_question |-> info.is_question,
             is_answer |-> info.is_answer,
             segment |-> k] >>
         \o assign_timings(words, j + 1, Plus(current, word_duration), word_duration, info, k)

needs_timer_m(prev_info, info) == FALSE

\* lines 61-78: the segment as the loop leaves it in audio_infos
needs_timer(prev_info, info) ==
    /\ prev_info.is_question
    /\ info.is_answer
    /\ Less(info.start_time, Plus(prev_info.end_time, timer_duration))

adjusted(infos, k) ==
    IF k > 1 /\ needs_timer(infos[k - 1], infos[k])
    THEN LET expected_start == Plus(infos[k - 1].end_time, timer_duration)
             offset == Minus(expected_start, infos[k].start_time)
         IN  [infos[k] EXCEPT !.start_time = expected_start,
                              !.end_time = Plus(@, offset)]
    ELSE infos[k]

\* lines 81-85
words_of(info) ==
    IF word_by_word THEN split_text_into_words(info.text) ELSE <<info.text>>

word_duration_of_m(info, words) ==
    Minus(info.end_time, info.start_time)

\* lines 92-93
word_duration_of(info, words) ==
    DivBy(Minus(info.end_time, info.start_time), Len(words))

CallGenerateSrt ==
    /\ srt_pc = "called"
    /\ srt_pc' = "loop"
    /\ srt_i' = 1
    /\ all_words' = <<>>
    /\ UNCHANGED <<word_by_word, audio_infos, srt_out, notsrt>>

\* one iteration of `for i, info in enumerate(audio_infos)` (59-106)
SrtSegment ==
    /\ srt_pc = "loop"
    /\ srt_i <= Len(audio_infos)
    /\ LET info == adjusted(audio_infos, srt_i)
           words == words_of(info)
       IN  /\ audio_infos' = [audio_infos EXCEPT ![srt_i] = info]
           /\ all_words' =
                IF words = <<>> THEN all_words
                ELSE all_words \o assign_timings(words, 1, info.start_time,
                                                 word_duration_of(info, words), info, srt_i)
    /\ srt_i' = srt_i + 1
    /\ UNCHANGED <<word_by_word, srt_pc, srt_out, notsrt>>

srt_blocks_m(words) ==
    [j \in 1..Len(words) |->
        [number |-> j - 1,
         start |-> format_time(words[j].start_time),
         end |-> format_time(words[j].end_time),
         text |-> words[j].text]]

\* one block of the file per entry of all_words (110-120)
srt_blocks(words) ==
    [j \in 1..Len(words) |->
        [number |-> j,
         start |-> format_time(words[j].start_time),
         end |-> format_time(words[j].end_time),
         text |-> words[j].text]]

\* lines 109-123, and 125-127 when the file cannot be written
WriteSrt ==
    /\ srt_pc = "loop"
    /\ srt_i > Len(audio_infos)
    /\ \E ok \in BOOLEAN :
          IF ok THEN /\ srt_out' = srt_blocks(all_words)
                     /\ srt_pc' = "returned"
                ELSE /\ srt_out' = srt_out
                     /\ srt_pc' = "raised"
    /\ UNCHANGED <<word_by_word, audio_infos, srt_i, all_words, notsrt>>

\* generate_srt is called with any list of at most MaxSegments segments
InitSRT ==
    /\ PipelineInit
    /\ cfg = [subtitles |-> TRUE, whisperx |-> FALSE]
    /\ word_by_word \in BOOLEAN
    /\ audio_infos \in SeqsUpTo(Segments, MaxSegments)
    /\ srt_pc = "called"
    /\ srt_i = 0
    /\ all_words = <<>>
    /\ srt_out = <<>>
    /\ SrtIdleElse

NextSRT ==
    \/ CallGenerateSrt
    \/ SrtSegment
    \/ WriteSrt

SpecSRT == InitSRT /\ [][NextSRT]_vars

\* ------------------------------------------------ claims on generate_srt
\* the positions in all_words of the words of segment k
WordsOf(k) == { j \in DOMAIN all_words : all_words[j].segment = k }

First(S) == CHOOSE j \in S : \A l \in S : j <= l
Last(S) == CHOOSE j \in S : \A l \in S : l <= j

RECURSIVE TotalWords(_)
TotalWords(k) ==
    IF k = 0 THEN 0 ELSE TotalWords(k - 1) + Len(split_text_into_words(audio_infos[k].text))

\* C11: with word_by_word enabled the file written by generate_srt holds one
\* block per word of the segment texts and no other block: block j carries the
\* number j (1, 2, ..., N without gap or repeat, N the number of words of all
\* segments), its word (not empty, no blank in it) and its two times; the
\* blocks follow the segments in order, and a segment without words has no block.
C11_BlocksNumbered ==
    (srt_pc = "returned" /\ word_by_word) =>
        /\ Len(srt_out) = TotalWords(Len(audio_infos))
        /\ \A j \in DOMAIN srt_out :
              /\ srt_out[j].number = j
              /\ srt_out[j].text # <<>>
              /\ \A c \in DOMAIN srt_out[j].text : srt_out[j].text[c] \notin Blank
              /\ srt_out[j].text = all_words[j].text
              /\ DOMAIN srt_out[j] = {"number", "start", "end", "text"}
        /\ \A k \in DOMAIN audio_infos :
              /\ Cardinality(WordsOf(k)) = Len(split_text_into_words(audio_infos[k].text))
              /\ \A j \in WordsOf(k) :
                    all_words[j].text = split_text_into_words(audio_infos[k].text)[j - First(WordsOf(k)) + 1]
        /\ \A j, l \in DOMAIN all_words :
              j < l => all_words[j].segment <= all_words[l].segment

\* a file of two blocks, both from the second segment: the first segment has no word
C11_Witness ==
    /\ srt_pc = "returned"
    /\ word_by_word
    /\ Len(audio_infos) = 2
    /\ split_text_into_words(audio_infos[1].text) = <<>>
    /\ audio_infos[1].text # <<>>
    /\ Len(srt_out) = 2
    /\ srt_out[2].number = 2

Millis(t) == ((t.h * 60 + t.m) * 60 + t.s) * 1000 + t.ms

\* C13: the 3-second pause is in the subtitles.  Whenever an answer segment
\* comes right after a question segment and yields a word, its first subtitle
\* starts at least 3.0 s after the end_time of the question segment, in
\* all_words and in the times printed in the file, whether the input timings
\* held the pause or not.
C13_PauseBeforeAnswer ==
    srt_pc \in {"loop", "returned"} =>
        \A k \in DOMAIN audio_infos :
            (/\ 1 < k /\ k < srt_i
             /\ audio_infos[k - 1].is_question
             /\ audio_infos[k].is_answer
             /\ WordsOf(k) # {}) =>
                LET first == First(WordsOf(k))
                    earliest == Plus(audio_infos[k - 1].end_time, timer_duration)
                IN  /\ ~Less(all_words[first].start_time, earliest)
                    /\ srt_pc = "returned" =>
                          Millis(srt_out[first].start) >= Millis(format_time(earliest))

\* an answer whose input start_time lay before the end of the pause
C13_Witness ==
    /\ srt_pc = "returned"
    /\ Len(audio_infos) = 2
    /\ audio_infos[1].is_question /\ ~audio_infos[1].is_answer
    /\ audio_infos[2].is_answer
    /\ WordsOf(2) # {}
    /\ audio_infos[1].end_time = Seconds(2)
    /\ audio_infos[2].start_time = Seconds(5)
    /\ Millis(srt_out[First(WordsOf(2))].start) = 5000

\* ================================================== ThemeSelector
\* ------------------------------------------------------------------ bounds
\* longest list of themes in the configuration
MaxThemes == 2
\* most calls of get_next_theme in one behaviour
MaxCalls == 3

ThemeNames == {"histoire", "science", "sport"}

\* ThemeSelector.__init__ (7-11) with _load_history (18-25): a new instance
\* reads the history the earlier ones saved and starts without a last theme
NewThemeSelector ==
    /\ ts_pc' = "ready"
    /\ last_theme' = NoTheme
    /\ history' = history_file
    /\ UNCHANGED <<themes, history_file, selections, nottheme>>

\* line 46
available_themes_m(ths, last) == ths

available_themes(ths, last) == SelectSeq(ths, LAMBDA t : t # last)

\* self.themes.index(x): position of the first x, 0-based; -1 stands for ValueError
index(ths, x) ==
    IF \E k \in DOMAIN ths : ths[k] = x
    THEN (CHOOSE k \in DOMAIN ths : ths[k] = x /\ \A l \in 1..(k - 1) : ths[l] # x) - 1
    ELSE -1

\* line 53
next_index_m(current_index, n) == current_index % n

next_index(current_index, n) == (current_index + 1) % n

\* lines 49-54: the theme of strategy 'cycle', NoTheme when the code raises
\* (IndexError on an empty list, ValueError on a history entry not in the list)
cycle_theme(ths, hist) ==
    IF hist = <<>>
    THEN IF ths = <<>> THEN NoTheme ELSE ths[1]
    ELSE IF index(ths, hist[Len(hist)]) = -1 THEN NoTheme
         ELSE ths[next_index(index(ths, hist[Len(hist)]), Len(ths)) + 1]

\* the themes get_next_theme can select (44-54); none when it raises
candidates(strategy, ths, last, hist) ==
    IF strategy = "random"
    THEN { available_themes(ths, last)[k] : k \in DOMAIN available_themes(ths, last) }
    ELSE { cycle_theme(ths, hist) } \ {NoTheme}

Selection(strategy, theme, ok) ==
    [strategy |-> strategy, theme |-> theme, returned |-> ok,
     last_before |-> IF history = <<>> THEN NoTheme ELSE history[Len(history)],
     fresh |-> last_theme = NoTheme]

\* get_next_theme (33-60).  It raises when nothing can be selected (47, 50,
\* 52) and when the history cannot be saved (58, after 56-57 took effect).
GetNextTheme ==
    /\ ts_pc = "ready"
    /\ Len(selections) < MaxCalls
    /\ \E strategy \in {"random", "cycle"} :
          LET C == candidates(strategy, themes, last_theme, history)
          IN  IF C = {}
              THEN /\ selections' = Append(selections, Selection(strategy, NoTheme, FALSE))
                   /\ UNCHANGED <<last_theme, history, history_file>>
              ELSE \E theme \in C, saved \in BOOLEAN :
                      /\ last_theme' = theme
                      /\ history' = Append(history, theme)
                      /\ history_file' = IF saved THEN history' ELSE history_file
                      /\ selections' = Append(selections, Selection(strategy, theme, saved))
    /\ UNCHANGED <<themes, ts_pc, nottheme>>

\* any list of at most MaxThemes themes, no history file yet
InitTheme ==
    /\ PipelineInit
    /\ cfg = [subtitles |-> FALSE, whisperx |-> FALSE]
    /\ themes \in SeqsUpTo(ThemeNames, MaxThemes)
    /\ history_file = <<>>
    /\ ts_pc = "none"
    /\ last_theme = NoTheme
    /\ history = <<>>
    /\ selections = <<>>
    /\ ThemeIdleElse

NextTheme ==
    \/ NewThemeSelector
    \/ GetNextTheme

SpecTheme == InitTheme /\ [][NextTheme]_vars

\* ------------------------------------------------ claims on ThemeSelector
\* C14: strategy 'random' does not repeat the theme selected last.  Of two
\* calls of get_next_theme that follow each other on the same ThemeSelector,
\* both with strategy 'random' and both returning, the second never returns
\* the theme the first returned.
C14_RandomNoRepeat ==
    \A j \in DOMAIN selections :
        (/\ j < Len(selections)
         /\ selections[j].strategy = "random" /\ selections[j].returned
         /\ selections[j + 1].strategy = "random" /\ selections[j + 1].returned
         /\ ~selections[j + 1].fresh) =>
            selections[j + 1].theme # selections[j].theme

\* two random selections in a row on one instance, from a list of two themes
C14_Witness ==
    /\ Len(themes) = 2 /\ themes[1] # themes[2]
    /\ Len(selections) >= 2
    /\ selections[1].strategy = "random" /\ selections[1].returned
    /\ selections[2].strategy = "random" /\ selections[2].returned
    /\ ~selections[2].fresh
    /\ selections[2].theme = themes[1]

Distinct(ths) == \A j, l \in DOMAIN ths : j # l => ths[j] # ths[l]

Successor(ths, x) == ths[((index(ths, x) + 1) % Len(ths)) + 1]

\* C15: strategy 'cycle' walks the list in order.  For a list of n pairwise
\* distinct themes: a cycle call selects themes[0] on an empty history and
\* otherwise the successor (index + 1 mod n) of the last history entry, whether
\* this instance or an earlier one put it there; from an empty history a
\* series of cycle calls returns themes[0], themes[1], ... and starts again
\* after themes[n-1]; n cycle calls in a row return every theme once.
C15_CycleInOrder ==
    (themes # <<>> /\ Distinct(themes)) =>
        LET n == Len(themes)
            cyc(j) == selections[j].strategy = "cycle" /\ selections[j].returned
        IN  /\ \A j \in DOMAIN selections :
                  cyc(j) =>
                      selections[j].theme =
                          IF selections[j].last_before = NoTheme THEN themes[1]
                          ELSE Successor(themes, selections[j].last_before)
            /\ \A j \in DOMAIN selections :
                  (\A l \in 1..j : cyc(l)) => selections[j].theme = themes[((j - 1) % n) + 1]
            /\ \A j \in DOMAIN selections :
                  (j + n - 1 <= Len(selections) /\ \A l \in j..(j + n - 1) : cyc(l)) =>
                      { selections[l].theme : l \in j..(j + n - 1) } = { themes[k] : k \in 1..n }

\* three cycle calls over two themes, the third by a new instance that read
\* the history: the selection starts again at themes[0]
C15_Witness ==
    /\ Len(themes) = 2 /\ Distinct(themes)
    /\ Len(selections) = 3
    /\ \A j \in 1..3 : selections[j].strategy = "cycle" /\ selections[j].returned
    /\ selections[3].fresh
    /\ selections[3].last_before = themes[2]
    /\ selections[3].theme = themes[1]

\* ================================================== BackgroundManager
\* ------------------------------------------------------------------ bounds
\* longest theme, in characters
MaxThemeLen == 2
\* the ids of the videos a Pexels search can return are 1..MaxVideoId
MaxVideoId == 2
\* most files in the directory when get_background_video is first called
MaxFiles == 2

\* characters of a theme: a lower-case letter, an upper-case letter and a
\* character outside [a-zA-Z0-9]
BgChars == {"a", "A", " "}

lower(c) == IF c = "A" THEN "a" ELSE c

\* re.sub(r'[^a-zA-Z0-9]+', '_', text), then lower(), then re.sub(r'_+', '_', text):
\* every run of other characters becomes one underscore
RECURSIVE underscored(_, _)
underscored(t, p) ==
    IF p > Len(t) THEN <<>>
    ELSE IF t[p] \in {"a", "A"}
         THEN <<lower(t[p])>> \o underscored(t, p + 1)
         ELSE IF p > 1 /\ t[p - 1] \notin {"a", "A"}
              THEN underscored(t, p + 1)
              ELSE <<"_">> \o underscored(t, p + 1)

\* text.strip('_')
RECURSIVE strip_underscores(_)
strip_underscores(t) ==
    IF t = <<>> THEN t
    ELSE IF Head(t) = "_" THEN strip_underscores(Tail(t))
         ELSE IF t[Len(t)] = "_" THEN strip_underscores(SubSeq(t, 1, Len(t) - 1))
              ELSE t

to_snake_case(t) == strip_underscores(underscored(t, 1))

BgThemes == SeqsUpTo(BgChars, MaxThemeLen) \ {<<>>}

VideoIds == 1..MaxVideoId

\* f"{theme_snake}_{video['id']}_blurred.mp4" (194)
final_path(theme_snake, id) == [theme_snake |-> theme_snake, id |-> id, kind |-> "blurred"]

\* f"temp_{theme_snake}_{video['id']}.mp4" (198)
temp_path(theme_snake, id) == [theme_snake |-> theme_snake, id |-> id, kind |-> "temp"]

\* the files the directory can hold
BgFiles ==
    { final_path(to_snake_case(t), v) : t \in BgThemes, v \in VideoIds }
        \cup { temp_path(to_snake_case(t), v) : t \in BgThemes, v \in VideoIds }

\* `if not final_path.exists()` (197)
must_fetch(path, dir) == path \notin dir

CallGetBackgroundVideo ==
    /\ bg_pc = "ready"
    /\ \E theme \in BgThemes : bg_theme' = theme
    /\ bg_pc' = "search"
    /\ bg_video' = 0
    /\ bg_result' = NoFile
    /\ bg_before' = videos_dir
    /\ bg_ops' = {}
    /\ UNCHANGED <<videos_dir, notbg>>

\* lines 166-197: the request to Pexels.  It fails (208-210), finds nothing
\* (174-186: any .mp4 of the directory, or None), or finds the video with
\* some id, whose blurred file is returned if it exists (197, 206).
BgSearch ==
    /\ bg_pc = "search"
    /\ bg_ops' = bg_ops \cup {"search"}
    /\ \/ /\ bg_pc' = "returned"
          /\ bg_result' = NoFile
          /\ bg_video' = bg_video
       \/ /\ bg_pc' = "returned"
          /\ bg_video' = bg_video
          /\ IF videos_dir = {} THEN bg_result' = NoFile
             ELSE \E f \in videos_dir : bg_result' = f
       \/ \E v \in VideoIds :
             /\ bg_video' = v
             /\ IF must_fetch(final_path(to_snake_case(bg_theme), v), videos_dir)
                THEN /\ bg_pc' = "download"
                     /\ bg_result' = bg_result
                ELSE /\ bg_pc' = "returned"
                     /\ bg_result' = final_path(to_snake_case(bg_theme), v)
    /\ UNCHANGED <<videos_dir, bg_theme, bg_before, notbg>>

\* _download_video (111-130) into temp_path; a failure is logged, re-raised
\* and turned into None by 208-210, with or without a partial file left
BgDownload ==
    /\ bg_pc = "download"
    /\ bg_ops' = bg_ops \cup {"download"}
    /\ LET temp == temp_path(to_snake_case(bg_theme), bg_video)
       IN  \/ /\ videos_dir' = videos_dir \cup {temp}
              /\ bg_pc' = "blur"
              /\ bg_result' = bg_result
           \/ /\ videos_dir' \in {videos_dir, videos_dir \cup {temp}}
              /\ bg_pc' = "returned"
              /\ bg_result' = NoFile
    /\ UNCHANGED <<bg_theme, bg_video, bg_before, notbg>>

\* _apply_blur (33-109) from temp_path to final_path, then 202-206; a failure
\* is logged, re-raised and turned into None, and the temporary file stays
BgBlur ==
    /\ bg_pc = "blur"
    /\ bg_ops' = bg_ops \cup {"blur"}
    /\ LET temp == temp_path(to_snake_case(bg_theme), bg_video)
           final == final_path(to_snake_case(bg_theme), bg_video)
       IN  \/ /\ videos_dir' = (videos_dir \cup {final}) \ {temp}
              /\ bg_result' = final
           \/ /\ videos_dir' = videos_dir
              /\ bg_result' = NoFile
    /\ bg_pc' = "returned"
    /\ UNCHANGED <<bg_theme, bg_video, bg_before, notbg>>

\* a BackgroundManager over a directory that earlier calls have filled
InitBG ==
    /\ PipelineInit
    /\ cfg = [subtitles |-> FALSE, whisperx |-> FALSE]
    /\ videos_dir \in { D \in SUBSET BgFiles : Cardinality(D) <= MaxFiles }
    /\ bg_pc = "ready"
    /\ bg_theme = <<>>
    /\ bg_video = 0
    /\ bg_result = NoFile
    /\ bg_before = {}
    /\ bg_ops = {}
    /\ BgIdleElse

NextBG ==
    \/ CallGetBackgroundVideo
    \/ BgSearch
    \/ BgDownload
    \/ BgBlur

SpecBG == InitBG /\ [][NextBG]_vars

\* ------------------------------------------------ claim on get_background_video
\* the blurred videos of the theme that were in the directory when the call started
ExistingFor(theme) ==
    { f \in bg_before : f.kind = "blurred" /\ f.theme_snake = to_snake_case(theme) }

\* C16: get_background_video reuses what exists.  When the call returns and a
\* blurred video for the theme was in the directory at its start, the result
\* is such a video and the call has downloaded and blurred nothing; a call
\* that downloads or blurs found no blurred video for the theme.
C16_ReusesExisting ==
    bg_pc = "returned" =>
        /\ ExistingFor(bg_theme) # {} =>
              /\ bg_result \in ExistingFor(bg_theme)
              /\ bg_ops \cap {"download", "blur"} = {}
        /\ bg_ops \cap {"download", "blur"} # {} => ExistingFor(bg_theme) = {}

\* ================================================== supprimer_doublons
\* ------------------------------------------------------------------ bounds
\* most entries in data['questions']
MaxEntries == 2

\* a key the object does not have
Absent == "<absent>"
\* a JSON value that cannot be an element of a set (a list, an object)
Unhashable == "[]"

\* the objects of data['questions']: 'question' and 'answer' present or not,
\* and the rest of the object (its choices), which tells two objects apart
Entries ==
    [question : {Absent, "a", "b"},
     answer : {Absent, "1", "2", Unhashable},
     choices : {"x", "y"}]

\* line 29
has_keys(question_obj) == question_obj.question # Absent /\ question_obj.answer # Absent

\* line 33
cle_unique(question_obj) == <<question_obj.question, question_obj.answer>>

\* lines 6-19: the file is read; without the key 'questions' the function
\* prints an error and returns False
CallSupprimerDoublons ==
    /\ dd_pc = "called"
    /\ IF fichier_entree.has_questions
       THEN /\ dd_pc' = "loop"
            /\ dd_k' = 1
            /\ dd_report' = [dd_report EXCEPT !.avant = Len(fichier_entree.questions)]
       ELSE /\ dd_pc' = "returned_false"
            /\ UNCHANGED <<dd_k, dd_report>>
    /\ questions_vues' = {}
    /\ questions_uniques' = <<>>
    /\ UNCHANGED <<fichier_entree, fichier_sortie, notdd>>

\* one iteration of `for question_obj in data['questions']` (27-38); the
\* membership test of line 36 raises TypeError on a value that cannot be hashed
DdIterate ==
    /\ dd_pc = "loop"
    /\ dd_k <= Len(fichier_entree.questions)
    /\ LET question_obj == fichier_entree.questions[dd_k]
       IN  IF ~has_keys(question_obj)
           THEN /\ dd_pc' = dd_pc
                /\ UNCHANGED <<questions_vues, questions_uniques>>
           ELSE IF Unhashable \in {question_obj.question, question_obj.answer}
                THEN /\ dd_pc' = "raised"
                     /\ UNCHANGED <<questions_vues, questions_uniques>>
                ELSE IF cle_unique(question_obj) \notin questions_vues
                     THEN /\ questions_vues' = questions_vues \cup {cle_unique(question_obj)}
                          /\ questions_uniques' = Append(questions_uniques, question_obj)
                          /\ dd_pc' = dd_pc
                     ELSE /\ dd_pc' = dd_pc
                          /\ UNCHANGED <<questions_vues, questions_uniques>>
    /\ dd_k' = dd_k + 1
    /\ UNCHANGED <<fichier_entree, fichier_sortie, dd_report, notdd>>

\* lines 41-51: the result is written, over the input file when no output
\* file was named, and the three numbers are printed
DdWrite ==
    /\ dd_pc = "loop"
    /\ dd_k > Len(fichier_entree.questions)
    /\ fichier_sortie' = [fichier_sortie EXCEPT !.written = TRUE,
                                                !.questions = questions_uniques]
    /\ dd_report' = [dd_report EXCEPT !.apres = Len(questions_uniques),
                                      !.supprimes = dd_report.avant - Len(questions_uniques)]
    /\ dd_pc' = "returned_true"
    /\ UNCHANGED <<fichier_entree, dd_k, questions_vues, questions_uniques, notdd>>

InitDD ==
    /\ PipelineInit
    /\ cfg = [subtitles |-> FALSE, whisperx |-> FALSE]
    /\ fichier_entree \in [has_questions : BOOLEAN, questions : SeqsUpTo(Entries, MaxEntries)]
    /\ fichier_sortie \in { [NotWritten EXCEPT !.file = f] : f \in {"entree", "sortie"} }
    /\ dd_pc = "called"
    /\ dd_k = 0
    /\ questions_vues = {}
    /\ questions_uniques = <<>>
    /\ dd_report = NoReport
    /\ DdIdleElse

NextDD ==
    \/ CallSupprimerDoublons
    \/ DdIterate
    \/ DdWrite

SpecDD == InitDD /\ [][NextDD]_vars

\* ------------------------------------------------ claim on supprimer_doublons
\* entry k repeats the (question, answer) pair of an earlier entry
IsDuplicate(k) ==
    \E j \in 1..(k - 1) :
        /\ fichier_entree.questions[j].question = fichier_entree.questions[k].question
        /\ fichier_entree.questions[j].answer = fichier_entree.questions[k].answer

RECURSIVE WithoutDuplicates(_)
WithoutDuplicates(k) ==
    IF k = 0 THEN <<>>
    ELSE IF IsDuplicate(k) THEN WithoutDuplicates(k - 1)
         ELSE Append(WithoutDuplicates(k - 1), fichier_entree.questions[k])

\* C17: supprimer_doublons removes the duplicates and nothing else.  When it
\* has written its result, the list written is the input list without the
\* entries that repeat the (question, answer) pair of an earlier entry, in
\* input order, and the number it reports as removed is the number of those
\* entries.
C17_OnlyDuplicatesRemoved ==
    dd_pc = "returned_true" =>
        LET n == Len(fichier_entree.questions)
        IN  /\ fichier_sortie.questions = WithoutDuplicates(n)
            /\ dd_report.supprimes = Cardinality({ k \in 1..n : IsDuplicate(k) })

\* ================================================== process_video
\* ------------------------------------------------------------------ bounds
\* the sides of the input video are 1..MaxSide times a ninth of tiktok_width
MaxSide == 18

tiktok_width == 1080
tiktok_height == 1920

Sides == { (tiktok_width \div 9) * k : k \in 1..MaxSide }

\* `width_ratio > height_ratio` (46-50), the two ratios being
\* tiktok_width / orig_width and tiktok_height / orig_height
width_ratio_greater(orig_width, orig_height) ==
    tiktok_width * orig_height > tiktok_height * orig_width

\* lines 50-59; int() of a positive float cuts its fraction
new_size(orig_width, orig_height) ==
    IF width_ratio_greater(orig_width, orig_height)
    THEN [width |-> tiktok_width,
          height |-> (orig_height * tiktok_width) \div orig_width]
    ELSE [width |-> (orig_width * tiktok_height) \div orig_height,
          height |-> tiktok_height]

\* x // 2 of Python, which rounds down also below zero
floordiv2(x) == IF x >= 0 THEN x \div 2 ELSE -((1 - x) \div 2)

\* line 70
use_blur(blur, size) ==
    blur /\ (size.width < tiktok_width \/ size.height < tiktok_height)

\* lines 42-93: the composition, a blurred full-frame copy of the video or a
\* black frame under the resized video
compose(orig_width, orig_height, blur) ==
    LET size == new_size(orig_width, orig_height)
    IN  [background |-> IF use_blur(blur, size) THEN "blurred" ELSE "black",
         new_width |-> size.width,
         new_height |-> size.height,
         pos_x |-> floordiv2(tiktok_width - size.width),
         pos_y |-> floordiv2(tiktok_height - size.height)]

\* process_video (14-113)
ProcessVideo ==
    /\ pv_pc = "called"
    /\ final_clip' = compose(clip_size.width, clip_size.height, blur_background)
    /\ pv_pc' = "written"
    /\ UNCHANGED <<clip_size, blur_background, notpv>>

\* main (115-148): any input video, with or without option -b
InitPV ==
    /\ PipelineInit
    /\ cfg = [subtitles |-> FALSE, whisperx |-> FALSE]
    /\ clip_size \in [width : Sides, height : Sides]
    /\ blur_background \in BOOLEAN
    /\ pv_pc = "called"
    /\ final_clip = NoClip
    /\ PvIdleElse

NextPV == ProcessVideo

SpecPV == InitPV /\ [][NextPV]_vars

\* ------------------------------------------------ claim on process_video
\* C18: with blur_background the video gets a blurred background.  Once the
\* video is written: if blur_background is set and the aspect ratio of the
\* input is not 9:16, the background is the blurred copy of the video; the
\* black background is used only if blur_background is not set or the
\* resized video fills the frame exactly.
C18_BlurredBackground ==
    pv_pc = "written" =>
        /\ (blur_background /\ 16 * clip_size.width # 9 * clip_size.height) =>
              final_clip.background = "blurred"
        /\ final_clip.background = "black" =>
              \/ ~blur_background
              \/ (final_clip.new_width = tiktok_width /\ final_clip.new_height = tiktok_height)

\* ================================================== the frames of the timer
\* ------------------------------------------------------------------ bounds
\* largest number of frames per second in the configuration
MaxFps == 10

\* line 351
total_frames(fps) == TimerDuration * fps

\* line 369: int(timer_duration - (frame / frames_per_second)) + 1
time_left(f, fps) == ((TimerDuration * fps - f) \div fps) + 1

\* lines 368 and 383: int(360 * (1 - frame / total_frames))
angle(f, total) == (360 * (total - f)) \div total

\* the end angle given to draw.arc (390)
arc_end(a) == (270 + a) % 360

\* what ImageDraw.arc draws between two angles: the whole circle if end is
\* 360 or more beyond start, else the arc from start clockwise to end, which
\* is nothing if the two are the same angle
arc_sweep(start, end) ==
    IF end - start >= 360 THEN 360 ELSE (end - start) % 360

\* one frame: the number written in the circle and the arc around it (366-410)
timer_frame(f, fps) ==
    [time_left |-> time_left(f, fps),
     angle |-> angle(f, total_frames(fps)),
     start |-> 270,
     end |-> arc_end(angle(f, total_frames(fps))),
     sweep |-> arc_sweep(270, arc_end(angle(f, total_frames(fps))))]

\* lines 350-365
CallCreateProgressBarTimer ==
    /\ tm_pc = "called"
    /\ tm_pc' = "loop"
    /\ frame' = 0
    /\ frames' = <<>>
    /\ UNCHANGED <<frames_per_second, nottm>>

\* one iteration of the loop (366-413)
TimerFrame ==
    /\ tm_pc = "loop"
    /\ frame < total_frames(frames_per_second)
    /\ frames' = Append(frames, timer_frame(frame, frames_per_second))
    /\ frame' = frame + 1
    /\ UNCHANGED <<frames_per_second, tm_pc, nottm>>

\* the loop is over and the clip is made of the frames (415-472)
TimerClip ==
    /\ tm_pc = "loop"
    /\ frame >= total_frames(frames_per_second)
    /\ tm_pc' = "returned"
    /\ UNCHANGED <<frames_per_second, frame, frames, nottm>>

\* create_video calls it with timer_duration = 3.0 (246, 284)
InitTimer ==
    /\ PipelineInit
    /\ cfg = [subtitles |-> FALSE, whisperx |-> FALSE]
    /\ frames_per_second \in 1..MaxFps
    /\ tm_pc = "called"
    /\ frame = 0
    /\ frames = <<>>
    /\ TimerIdleElse

NextTimer ==
    \/ CallCreateProgressBarTimer
    \/ TimerFrame
    \/ TimerClip

SpecTimer == InitTimer /\ [][NextTimer]_vars

\* ------------------------------------------------ claims on the timer frames
\* C19: the countdown shows 3, 2, 1.  On the frames of the 3-second timer the
\* number of seconds displayed is between 1 and 3; it is 3 on the first frame,
\* never goes up from one frame to the next, and is 1 on the last frame.
C19_SecondsDisplayed ==
    tm_pc = "returned" =>
        /\ \A f \in DOMAIN frames : frames[f].time_left \in 1..TimerDuration
        /\ frames[1].time_left = TimerDuration
        /\ \A f \in DOMAIN frames : f > 1 => frames[f].time_left <= frames[f - 1].time_left
        /\ frames[Len(frames)].time_left = 1

\* C20: the arc shrinks with time.  On frame f the arc drawn from 270 degrees
\* to the end angle sweeps int(360 * (1 - f / total_frames)) degrees: the whole
\* circle on the first frame, never more than on the frame before, and close
\* to nothing on the last frame.
C20_ArcShrinks ==
    tm_pc = "returned" =>
        /\ \A f \in DOMAIN frames : frames[f].sweep = frames[f].angle
        /\ frames[1].sweep = 360
        /\ \A f \in DOMAIN frames : f > 1 => frames[f].sweep <= frames[f - 1].sweep
        /\ frames[Len(frames)].sweep <= 360 \div TimerDuration
====
